---- MODULE Spec2Model ----
(***************************************************************************)
(* Model of geiger.c: the interrupt handlers INT0 (detector pulse), INT1   *)
(* (push button) and TIMER1_COMPA (tick), and the main loop that sleeps,   *)
(* then calls checkevent, sendreport, checkevent.                          *)
(*                                                                         *)
(* The 64-bit counter is kept as 8 bytes, least significant first, which   *)
(* is how the 8-bit AVR stores and reads it.  Characters are ASCII codes.  *)
(* An interrupt handler runs to completion (the AVR clears the global      *)
(* interrupt enable on vector entry); edges that arrive meanwhile are      *)
(* latched in the interrupt flags INTF0, INTF1, OCF1A.                     *)
(***************************************************************************)
EXTENDS Integers, Sequences, FiniteSets, TLC

\* ------------------------------------------------------------------ bounds
\* number of executions of the INT0 handler in one behaviour
MaxPulses == 1
\* number of button presses (falling edges) in one behaviour
MaxPresses == 1

\* number of button presses in one behaviour of the button on its own: more
\* than 256, so that the 8-bit mode wraps
MaxManyPresses == 260

\* ------------------------------------------------------- program constants
SER_BUFF_LEN == 17
COUNT_BYTES == 8
NUL == 0
LF == 10
CR == 13

\* ---------------------------------------------------- multi-byte integers
Zero(n) == [i \in 1..n |-> 0]

\* x + 1 on an n-byte unsigned integer, modulo 2^(8n): the carry enters
\* byte i when all the bytes below it are 255
Inc(b) == [i \in 1..Len(b) |->
             IF \A j \in 1..(i - 1) : b[j] = 255 THEN (b[i] + 1) % 256 ELSE b[i]]

\* a < b on unsigned integers of the same length
Less(a, b) == \E i \in 1..Len(a) :
                 /\ a[i] < b[i]
                 /\ \A j \in (i + 1)..Len(a) : a[j] = b[j]

UINT64_MAX == [i \in 1..COUNT_BYTES |-> 255]

\* the values v, v+1, ... up to w, at most n + 1 of them
RECURSIVE Between(_, _, _)
Between(v, w, n) == IF v = w \/ n = 0 THEN {v}
                    ELSE {v} \cup Between(Inc(v), w, n - 1)

\* states the program can be in when observation starts, as counter, mode and
\* the order in which the compiled code loads the 8 bytes of the volatile
\* counter (fixed by the build: ascending or descending addresses).  The
\* counters are 0 (after startup), 255 (one pulse before a carry into the
\* second byte), one pulse before the maximum, and the maximum.
C255 == [i \in 1..COUNT_BYTES |-> IF i = 1 THEN 255 ELSE 0]
CNearMax == [i \in 1..COUNT_BYTES |-> IF i = 1 THEN 254 ELSE 255]
Starts == { <<Zero(COUNT_BYTES), 0, "lohi">>,
            <<C255, 254, "lohi">>,
            <<C255, 3, "hilo">>,
            <<CNearMax, 1, "lohi">>,
            <<UINT64_MAX, 2, "hilo">> }

\* ------------------------------------------------------------------- state
VARIABLES
  \* globals of geiger.c
  feedback_mode, count, eventflag, tick, serbuf,
  \* hardware: output pins and timer 0, button input, interrupt flags
  PD6, PB4, CS01, COM0A0, PD3, INTF0, INTF1, OCF1A,
  \* control: the handler being executed and the position of the main loop
  isr, mainpc, ceCall, readOrder, nread, x, bufp, txpos,
  \* the serial line: bytes since the last line feed, the last complete line
  sent, lastLine,
  \* history: pulses handled (9 bytes), handler runs, output pulses,
  \* presses, calls of this wake cycle, counter values at tick and at read
  pulses, int0_runs, outPulses, presses, calls,
  tickCount, repTickCount, readLo, readHi, modeOnEntry,
  \* observation: accepted presses, bounce edges latched during a settle
  \* delay, the modes (mod 4) held during the running call of checkevent,
  \* a pulse handled during sendreport and not yet seen by checkevent
  accepted, bounces, ceModes, srPulse,
  \* hexu64 on its own: input, buffer, position
  hx, hbuf, hpc

progVars == <<feedback_mode, count, eventflag, tick, serbuf>>
hwVars == <<PD6, PB4, CS01, COM0A0, PD3, INTF0, INTF1, OCF1A>>
ctlVars == <<isr, mainpc, ceCall, readOrder, nread, x, bufp, txpos>>
lineVars == <<sent, lastLine>>
histVars == <<pulses, int0_runs, outPulses, presses, calls,
              tickCount, repTickCount, readLo, readHi, modeOnEntry>>
obsVars == <<accepted, bounces, ceModes, srPulse>>
hexVars == <<hx, hbuf, hpc>>
vars == <<progVars, hwVars, ctlVars, lineVars, histVars, obsVars, hexVars>>

\* the positions of the main program inside checkevent and inside sendreport
InCheckevent == mainpc \in {"ce_test", "ce_clear", "ce_led", "ce_tone", "ce_hold", "ce_off"}
InSendreport == mainpc \in {"sr_test", "sr_clear", "sr_read", "sr_hex", "sr_put", "sr_nl", "sr_done"}

\* ------------------------------------------------------------ hexu64
\* lower-case digits above 9
HexChar_lower(d) == IF d < 10 THEN 48 + d ELSE 97 + (d - 10)

\* '0' + d or 'A' + (d - 10)
HexChar(d) == IF d < 10 THEN 48 + d ELSE 65 + (d - 10)

\* each byte shifted on its own, the bits that cross a byte boundary lost
Shr4_bytewise(v) == [i \in 1..COUNT_BYTES |-> v[i] \div 16]

\* x >>= 4 on the 8 bytes
Shr4(v) == [i \in 1..COUNT_BYTES |->
              (v[i] \div 16) + (IF i < COUNT_BYTES THEN (v[i + 1] % 16) * 16 ELSE 0)]

\* the for loop: p runs from buf + 15 down to buf (indices 16 down to 1)
RECURSIVE hexloop(_, _, _)
hexloop(v, buf, p) ==
  IF p < 1 THEN buf
  ELSE hexloop(Shr4(v), [buf EXCEPT ![p] = HexChar(v[1] % 16)], p - 1)

hexu64(v, buf) == hexloop(v, [buf EXCEPT ![17] = NUL], 16)

\* ------------------------------------------------------------------- Init
\* main() up to sei(): ports and timers configured, feedback_mode and count
\* set, interrupts enabled, the loop about to go to sleep.  The counter and
\* the mode start from one of Starts, with
\* the history of pulses equal to the counter.
Init ==
  /\ \E st \in Starts : count = st[1] /\ feedback_mode = st[2] /\ readOrder = st[3]
  /\ eventflag = 0
  /\ tick = 0
  /\ serbuf = Zero(SER_BUFF_LEN)
  /\ PD6 = FALSE /\ PB4 = FALSE /\ CS01 = FALSE /\ COM0A0 = TRUE
  /\ PD3 = TRUE
  /\ INTF0 = FALSE /\ INTF1 = FALSE /\ OCF1A = FALSE
  /\ isr = "none" /\ mainpc = "sleep" /\ ceCall = 0
  /\ nread = 0 /\ x = Zero(COUNT_BYTES) /\ bufp = 1 /\ txpos = 1
  /\ sent = <<>> /\ lastLine = <<>>
  /\ pulses = count \o <<0>>
  /\ int0_runs = 0 /\ outPulses = 0 /\ presses = 0
  /\ calls = <<>>
  /\ tickCount = Zero(COUNT_BYTES) /\ repTickCount = Zero(COUNT_BYTES)
  /\ readLo = Zero(COUNT_BYTES) /\ readHi = Zero(COUNT_BYTES)
  /\ modeOnEntry = 0
  /\ accepted = 0 /\ bounces = 0 /\ ceModes = {} /\ srPulse = FALSE
  /\ hx = Zero(COUNT_BYTES) /\ hbuf = Zero(SER_BUFF_LEN) /\ hpc = "idle"

\* the program with counter c, mode m, load order o, eventflag e and the main
\* loop at pc, no handler running, nothing latched, nothing sent
Start(c, m, o, e, pc) ==
  /\ count = c /\ feedback_mode = m /\ readOrder = o
  /\ eventflag = e
  /\ tick = 0
  /\ serbuf = Zero(SER_BUFF_LEN)
  /\ PD6 = FALSE /\ PB4 = FALSE /\ CS01 = FALSE /\ COM0A0 = TRUE
  /\ PD3 = TRUE
  /\ INTF0 = FALSE /\ INTF1 = FALSE /\ OCF1A = FALSE
  /\ isr = "none" /\ mainpc = pc /\ ceCall = 0
  /\ nread = 0 /\ x = Zero(COUNT_BYTES) /\ bufp = 1 /\ txpos = 1
  /\ sent = <<>> /\ lastLine = <<>>
  /\ pulses = c \o <<0>>
  /\ int0_runs = 0 /\ outPulses = 0 /\ presses = 0
  /\ calls = <<>>
  /\ tickCount = Zero(COUNT_BYTES) /\ repTickCount = Zero(COUNT_BYTES)
  /\ readLo = Zero(COUNT_BYTES) /\ readHi = Zero(COUNT_BYTES)
  /\ modeOnEntry = 0
  /\ accepted = 0 /\ bounces = 0 /\ ceModes = {} /\ srPulse = FALSE
  /\ hx = Zero(COUNT_BYTES) /\ hbuf = Zero(SER_BUFF_LEN) /\ hpc = "idle"

\* ------------------------------------------------------------ environment
\* a falling edge on INT0 latches INTF0 (an edge while it is latched merges)
DetectorEdge ==
  /\ int0_runs < MaxPulses
  /\ ~INTF0
  /\ INTF0' = TRUE
  /\ UNCHANGED <<progVars, PD6, PB4, CS01, COM0A0, PD3, INTF1, OCF1A,
                 ctlVars, lineVars, histVars, obsVars, hexVars>>

\* the button input falls (a press, or a bounce back to closed): INTF1 latches
ButtonPress ==
  /\ PD3
  /\ presses < MaxPresses
  /\ PD3' = FALSE
  /\ INTF1' = TRUE
  /\ presses' = presses + 1
  /\ UNCHANGED <<progVars, PD6, PB4, CS01, COM0A0, INTF0, OCF1A,
                 ctlVars, lineVars, pulses, int0_runs, outPulses, calls,
                 tickCount, repTickCount, readLo, readHi, modeOnEntry, obsVars, hexVars>>

\* the button input rises (a release, or a bounce open)
ButtonRelease ==
  /\ ~PD3
  /\ PD3' = TRUE
  /\ UNCHANGED <<progVars, PD6, PB4, CS01, COM0A0, INTF0, INTF1, OCF1A,
                 ctlVars, lineVars, histVars, obsVars, hexVars>>

\* contact bounce while the INT1 handler sits in its settle delay: the
\* closed contact opens and closes again, a further falling edge, which
\* latches INTF1 (a further edge while it is latched merges with it)
ButtonBounce ==
  /\ isr = "INT1"
  /\ ~PD3
  /\ ~INTF1
  /\ INTF1' = TRUE
  /\ bounces' = bounces + 1
  /\ UNCHANGED <<progVars, PD6, PB4, CS01, COM0A0, PD3, INTF0, OCF1A,
                 ctlVars, lineVars, histVars, accepted, ceModes, srPulse, hexVars>>

\* a sleep mode that stops the clock of timer 1 while the processor sleeps
TimerMatch_not_asleep ==
  /\ mainpc # "asleep"
  /\ ~OCF1A
  /\ OCF1A' = TRUE
  /\ UNCHANGED <<progVars, PD6, PB4, CS01, COM0A0, PD3, INTF0, INTF1,
                 ctlVars, lineVars, histVars, obsVars, hexVars>>

\* timer 1 reaches OCR1A: the compare flag latches
TimerMatch ==
  /\ ~OCF1A
  /\ OCF1A' = TRUE
  /\ UNCHANGED <<progVars, PD6, PB4, CS01, COM0A0, PD3, INTF0, INTF1,
                 ctlVars, lineVars, histVars, obsVars, hexVars>>

\* --------------------------------------------------------------- handlers
\* interrupts enabled from reset on
IntEnabled_at_reset == TRUE

\* the global interrupt enable: clear from reset until sei(), line 258, which
\* main executes after lines 255-256
IntEnabled == mainpc \notin {"init_mode", "init_count", "sei"}

\* reti: the handler ends; a sleeping processor wakes after the handler
Reti ==
  /\ isr' = "none"
  /\ mainpc' = IF mainpc = "asleep" THEN "wake" ELSE mainpc

\* count++ without the overflow check
INT0_increment_wrap(c) == Inc(c)

\* ISR(INT0_vect), lines 102-103
INT0_increment(c) == IF Less(c, UINT64_MAX) THEN Inc(c) ELSE c

\* lines 102-108: the counter, then PORTD |= _BV(PD6); the handler then sits
\* in _delay_us(PULSEWIDTH)
INT0_entry ==
  /\ isr = "none"
  /\ IntEnabled
  /\ INTF0
  /\ INTF0' = FALSE
  /\ count' = INT0_increment(count)
  /\ pulses' = Inc(pulses)
  /\ int0_runs' = int0_runs + 1
  /\ PD6' = TRUE
  /\ outPulses' = IF PD6 THEN outPulses ELSE outPulses + 1
  /\ isr' = "INT0"
  /\ UNCHANGED <<feedback_mode, eventflag, tick, serbuf,
                 PB4, CS01, COM0A0, PD3, INTF1, OCF1A,
                 mainpc, ceCall, readOrder, nread, x, bufp, txpos, lineVars,
                 presses, calls,
                 tickCount, repTickCount, readLo, readHi, modeOnEntry, obsVars, hexVars>>

\* the pulse output left as it is
INT0_pulse_stays(pin) == pin

\* line 110: PORTD &= ~_BV(PD6)
INT0_pulse_end(pin) == FALSE

\* lines 110-113: pulse output low, eventflag = 1, return
INT0_exit ==
  /\ isr = "INT0"
  /\ PD6' = INT0_pulse_end(PD6)
  /\ eventflag' = 1
  /\ srPulse' = (srPulse \/ InSendreport)
  /\ Reti
  /\ UNCHANGED <<feedback_mode, count, tick, serbuf,
                 PB4, CS01, COM0A0, PD3, INTF0, INTF1, OCF1A,
                 ceCall, readOrder, nread, x, bufp, txpos, lineVars,
                 histVars, accepted, bounces, ceModes, hexVars>>

\* ISR(INT1_vect): entered when no higher-priority flag is latched; the
\* handler then sits in _delay_ms(25), line 121
INT1_entry ==
  /\ isr = "none"
  /\ IntEnabled
  /\ ~INTF0
  /\ INTF1
  /\ INTF1' = FALSE
  /\ modeOnEntry' = feedback_mode
  /\ isr' = "INT1"
  /\ UNCHANGED <<progVars, PD6, PB4, CS01, COM0A0, PD3, INTF0, OCF1A,
                 mainpc, ceCall, readOrder, nread, x, bufp, txpos, lineVars,
                 pulses, int0_runs, outPulses, presses, calls,
                 tickCount, repTickCount, readLo, readHi, obsVars, hexVars>>

\* feedback_mode++ that stops at 255, as the counter stops at its maximum
INT1_next_mode_sat(m, pin) == IF ~pin /\ m < 255 THEN m + 1 ELSE m

\* feedback_mode++ without the second look at the button
INT1_next_mode_always(m, pin) == (m + 1) % 256

\* lines 122-123: if ((PIND & _BV(PD3)) == 0) feedback_mode++, on a uint8_t
INT1_next_mode(m, pin) == IF ~pin THEN (m + 1) % 256 ELSE m

\* the handler returning without line 124
INT1_keep_flag(f) == f

\* line 124, EIFR |= _BV(INTF1): the latched INTF1 is written back as 1,
\* which clears it
INT1_clear_flag(f) == FALSE

\* lines 122-125.  Line 124, EIFR |= _BV(INTF1): EIFR is read, or-ed and
\* written back, and an interrupt flag is cleared by writing 1 to it, so
\* INTF1 is cleared, and so is INTF0 when it was latched at the read
INT1_exit ==
  /\ isr = "INT1"
  /\ feedback_mode' = INT1_next_mode(feedback_mode, PD3)
  /\ INTF1' = INT1_clear_flag(INTF1)
  /\ INTF0' = FALSE
  /\ accepted' = IF ~PD3 THEN accepted + 1 ELSE accepted
  /\ ceModes' = IF InCheckevent THEN ceModes \cup {feedback_mode' % 4} ELSE ceModes
  /\ Reti
  /\ UNCHANGED <<count, eventflag, tick, serbuf,
                 PD6, PB4, CS01, COM0A0, PD3, OCF1A,
                 ceCall, readOrder, nread, x, bufp, txpos, lineVars,
                 histVars, bounces, srPulse, hexVars>>

\* ISR(TIMER1_COMPA_vect), line 132: tick = 1
TIMER1_COMPA ==
  /\ isr = "none"
  /\ IntEnabled
  /\ ~INTF0 /\ ~INTF1
  /\ OCF1A
  /\ OCF1A' = FALSE
  /\ tick' = 1
  /\ tickCount' = count
  /\ Reti
  /\ UNCHANGED <<feedback_mode, count, eventflag, serbuf,
                 PD6, PB4, CS01, COM0A0, PD3, INTF0, INTF1,
                 ceCall, readOrder, nread, x, bufp, txpos, lineVars,
                 pulses, int0_runs, outPulses, presses, calls,
                 repTickCount, readLo, readHi, modeOnEntry, obsVars, hexVars>>

\* -------------------------------------------------------------- main loop
\* the main program executes its next statement when no handler is running
\* and no interrupt is latched (a latched interrupt is taken first, once
\* interrupts are enabled)
MainRuns == isr = "none" /\ ~(IntEnabled /\ (INTF0 \/ INTF1 \/ OCF1A))

\* line 255: feedback_mode = 0
main_init_mode ==
  /\ MainRuns
  /\ mainpc = "init_mode"
  /\ feedback_mode' = 0
  /\ mainpc' = "init_count"
  /\ UNCHANGED <<count, eventflag, tick, serbuf, hwVars,
                 isr, ceCall, readOrder, nread, x, bufp, txpos,
                 lineVars, histVars, obsVars, hexVars>>

\* line 256: count = 0
main_init_count ==
  /\ MainRuns
  /\ mainpc = "init_count"
  /\ count' = Zero(COUNT_BYTES)
  /\ mainpc' = "sei"
  /\ UNCHANGED <<feedback_mode, eventflag, tick, serbuf, hwVars,
                 isr, ceCall, readOrder, nread, x, bufp, txpos,
                 lineVars, histVars, obsVars, hexVars>>

\* line 258: sei(), then the top of the loop
main_sei ==
  /\ MainRuns
  /\ mainpc = "sei"
  /\ mainpc' = "sleep"
  /\ UNCHANGED <<progVars, hwVars, isr, ceCall, readOrder, nread, x, bufp, txpos,
                 lineVars, histVars, obsVars, hexVars>>

\* lines 263-265: set_sleep_mode, sleep_enable, sleep_cpu
main_sleep ==
  /\ MainRuns
  /\ mainpc = "sleep"
  /\ mainpc' = "asleep"
  /\ UNCHANGED <<progVars, hwVars, isr, ceCall, readOrder, nread, x, bufp, txpos,
                 lineVars, histVars, obsVars, hexVars>>

\* lines 270-272: sleep_disable, then the first call of checkevent
main_wake ==
  /\ MainRuns
  /\ mainpc = "wake"
  /\ mainpc' = "ce_test"
  /\ ceCall' = 1
  /\ calls' = <<"wake", "checkevent">>
  /\ ceModes' = {feedback_mode % 4}
  /\ UNCHANGED <<progVars, hwVars, isr, readOrder, nread, x, bufp, txpos,
                 lineVars, pulses, int0_runs, outPulses, presses,
                 tickCount, repTickCount, readLo, readHi, modeOnEntry,
                 accepted, bounces, srPulse, hexVars>>

\* the loop without sendreport and the second checkevent
AfterCheckevent_once(call) == "sleep"

\* where main continues when checkevent returns: line 274 after the first
\* call, the top of the loop after the second
AfterCheckevent(call) == IF call = 1 THEN "sr_test" ELSE "sleep"

checkevent_return ==
  /\ mainpc' = AfterCheckevent(ceCall)
  /\ ceCall' = 0
  /\ calls' = IF AfterCheckevent(ceCall) = "sr_test"
              THEN Append(calls, "sendreport") ELSE calls
  /\ ceModes' = {}
  /\ srPulse' = FALSE

\* lines 182-185 outside the if: the outputs switched off on every call
ce_test_off ==
  /\ MainRuns
  /\ mainpc = "ce_test"
  /\ IF eventflag # 0
     THEN /\ mainpc' = "ce_clear"
          /\ UNCHANGED <<ceCall, calls, ceModes, srPulse, PB4, CS01, COM0A0>>
     ELSE /\ checkevent_return
          /\ PB4' = FALSE /\ CS01' = FALSE /\ COM0A0' = FALSE
  /\ UNCHANGED <<progVars, PD6, PD3, INTF0, INTF1, OCF1A,
                 isr, readOrder, nread, x, bufp, txpos,
                 lineVars, pulses, int0_runs, outPulses, presses,
                 tickCount, repTickCount, readLo, readHi, modeOnEntry,
                 accepted, bounces, hexVars>>

\* line 167: if (eventflag)
ce_test ==
  /\ MainRuns
  /\ mainpc = "ce_test"
  /\ IF eventflag # 0
     THEN mainpc' = "ce_clear" /\ UNCHANGED <<ceCall, calls, ceModes, srPulse>>
     ELSE checkevent_return
  /\ UNCHANGED <<progVars, hwVars, isr, readOrder, nread, x, bufp, txpos,
                 lineVars, pulses, int0_runs, outPulses, presses,
                 tickCount, repTickCount, readLo, readHi, modeOnEntry,
                 accepted, bounces, hexVars>>

\* checkevent clearing the tick flag along with its own
ce_clear_both ==
  /\ MainRuns
  /\ mainpc = "ce_clear"
  /\ eventflag' = 0
  /\ tick' = 0
  /\ mainpc' = "ce_led"
  /\ UNCHANGED <<feedback_mode, count, serbuf, hwVars,
                 isr, ceCall, readOrder, nread, x, bufp, txpos,
                 lineVars, histVars, obsVars, hexVars>>

\* line 168: eventflag = 0
ce_clear ==
  /\ MainRuns
  /\ mainpc = "ce_clear"
  /\ eventflag' = 0
  /\ mainpc' = "ce_led"
  /\ UNCHANGED <<feedback_mode, count, tick, serbuf, hwVars,
                 isr, ceCall, readOrder, nread, x, bufp, txpos,
                 lineVars, histVars, obsVars, hexVars>>

\* the LED switched by bit 1 of the mode
ce_led_on_bit1(mode, led) == IF (mode \div 2) % 2 = 1 THEN TRUE ELSE led

\* lines 170-172: if (feedback_mode & 1) PORTB |= _BV(PB4)
ce_led_on(mode, led) == IF mode % 2 = 1 THEN TRUE ELSE led

ce_led ==
  /\ MainRuns
  /\ mainpc = "ce_led"
  /\ PB4' = ce_led_on(feedback_mode, PB4)
  /\ mainpc' = "ce_tone"
  /\ UNCHANGED <<progVars, PD6, CS01, COM0A0, PD3, INTF0, INTF1, OCF1A,
                 isr, ceCall, readOrder, nread, x, bufp, txpos,
                 lineVars, histVars, obsVars, hexVars>>

\* lines 173-177: if (feedback_mode & 2) connect OC0A and start timer 0
ce_tone ==
  /\ MainRuns
  /\ mainpc = "ce_tone"
  /\ IF (feedback_mode \div 2) % 2 = 1
     THEN COM0A0' = TRUE /\ CS01' = TRUE
     ELSE UNCHANGED <<COM0A0, CS01>>
  /\ mainpc' = "ce_hold"
  /\ UNCHANGED <<progVars, PD6, PB4, PD3, INTF0, INTF1, OCF1A,
                 isr, ceCall, readOrder, nread, x, bufp, txpos,
                 lineVars, histVars, obsVars, hexVars>>

\* line 180: _delay_ms(10)
ce_hold ==
  /\ MainRuns
  /\ mainpc = "ce_hold"
  /\ mainpc' = "ce_off"
  /\ UNCHANGED <<progVars, hwVars, isr, ceCall, readOrder, nread, x, bufp, txpos,
                 lineVars, histVars, obsVars, hexVars>>

\* the flag cleared once more at the end of the hold
ce_off_clear ==
  /\ MainRuns
  /\ mainpc = "ce_off"
  /\ PB4' = FALSE
  /\ CS01' = FALSE
  /\ COM0A0' = FALSE
  /\ eventflag' = 0
  /\ checkevent_return
  /\ UNCHANGED <<feedback_mode, count, tick, serbuf, PD6, PD3, INTF0, INTF1, OCF1A,
                 isr, readOrder, nread, x, bufp, txpos,
                 lineVars, pulses, int0_runs, outPulses, presses,
                 tickCount, repTickCount, readLo, readHi, modeOnEntry,
                 accepted, bounces, hexVars>>

\* lines 182-185: LED off, TCCR0B = 0, OC0A disconnected; then return
ce_off ==
  /\ MainRuns
  /\ mainpc = "ce_off"
  /\ PB4' = FALSE
  /\ CS01' = FALSE
  /\ COM0A0' = FALSE
  /\ checkevent_return
  /\ UNCHANGED <<progVars, PD6, PD3, INTF0, INTF1, OCF1A,
                 isr, readOrder, nread, x, bufp, txpos,
                 lineVars, pulses, int0_runs, outPulses, presses,
                 tickCount, repTickCount, readLo, readHi, modeOnEntry,
                 accepted, bounces, hexVars>>

\* the loop going back to sleep right after sendreport
sendreport_return_sleep ==
  /\ mainpc' = "sleep"
  /\ ceCall' = 0
  /\ calls' = calls
  /\ ceModes' = {}

\* sendreport returns: line 276, the second call of checkevent
sendreport_return ==
  /\ mainpc' = "ce_test"
  /\ ceCall' = 2
  /\ calls' = Append(calls, "checkevent")
  /\ ceModes' = {feedback_mode % 4}

\* line 209: if (tick)
sr_test ==
  /\ MainRuns
  /\ mainpc = "sr_test"
  /\ IF tick # 0
     THEN /\ mainpc' = "sr_clear"
          /\ repTickCount' = tickCount
          /\ UNCHANGED <<ceCall, calls, ceModes>>
     ELSE /\ sendreport_return
          /\ UNCHANGED repTickCount
  /\ UNCHANGED <<progVars, hwVars, isr, readOrder, nread, x, bufp, txpos,
                 lineVars, pulses, int0_runs, outPulses, presses,
                 tickCount, readLo, readHi, modeOnEntry,
                 accepted, bounces, srPulse, hexVars>>

\* line 210: tick = 0
sr_clear ==
  /\ MainRuns
  /\ mainpc = "sr_clear"
  /\ tick' = 0
  /\ tickCount' = Zero(COUNT_BYTES)
  /\ mainpc' = "sr_read"
  /\ nread' = 0
  /\ UNCHANGED <<feedback_mode, count, eventflag, serbuf, hwVars,
                 isr, ceCall, readOrder, x, bufp, txpos,
                 lineVars, pulses, int0_runs, outPulses, presses, calls,
                 repTickCount, readLo, readHi, modeOnEntry, obsVars, hexVars>>

\* line 213, the argument count: the volatile 64-bit value is loaded one
\* byte at a time; n bytes are loaded already, this is the index of the next
ReadIndex(order, n) == IF order = "lohi" THEN n + 1 ELSE COUNT_BYTES - n

sr_read ==
  /\ MainRuns
  /\ mainpc = "sr_read"
  /\ x' = [x EXCEPT ![ReadIndex(readOrder, nread)] = count[ReadIndex(readOrder, nread)]]
  /\ nread' = nread + 1
  /\ readLo' = IF nread = 0 THEN count ELSE readLo
  /\ readHi' = IF nread + 1 = COUNT_BYTES THEN count ELSE readHi
  /\ mainpc' = IF nread + 1 = COUNT_BYTES THEN "sr_hex" ELSE "sr_read"
  /\ UNCHANGED <<progVars, hwVars, isr, ceCall, readOrder, bufp, txpos,
                 lineVars, pulses, int0_runs, outPulses, presses, calls,
                 tickCount, repTickCount, modeOnEntry, obsVars, hexVars>>

\* line 213, the call: hexu64(count, serbuf)
sr_hex ==
  /\ MainRuns
  /\ mainpc = "sr_hex"
  /\ serbuf' = hexu64(x, serbuf)
  /\ bufp' = 1
  /\ txpos' = 1
  /\ mainpc' = "sr_put"
  /\ UNCHANGED <<feedback_mode, count, eventflag, tick, hwVars,
                 isr, ceCall, readOrder, nread, x,
                 lineVars, histVars, obsVars, hexVars>>

\* no carriage return before a line feed
uart_putchar_raw(c) == <<c>>

\* uart_putchar(c): the bytes one call writes to UDR, in order
uart_putchar(c) == IF c = LF THEN <<CR, LF>> ELSE <<c>>

\* lines 142-143 inside uart_putchar(c): the wait loop has read UDRE set (an
\* input of the program; the passes that read it clear change nothing) and
\* UDR is written.  A line feed on the wire ends the line.
uart_send(c) ==
  /\ IF uart_putchar(c)[txpos] = LF
     THEN sent' = <<>> /\ lastLine' = Append(sent, LF)
     ELSE sent' = Append(sent, uart_putchar(c)[txpos]) /\ UNCHANGED lastLine
  /\ txpos' = IF txpos = Len(uart_putchar(c)) THEN 1 ELSE txpos + 1

\* lines 150-153: while (*buffer != '\0') { uart_putchar(*buffer); buffer++; }
sr_put ==
  /\ MainRuns
  /\ mainpc = "sr_put"
  /\ IF serbuf[bufp] = NUL
     THEN /\ mainpc' = "sr_nl"
          /\ UNCHANGED <<bufp, txpos, lineVars>>
     ELSE /\ uart_send(serbuf[bufp])
          /\ bufp' = IF txpos = Len(uart_putchar(serbuf[bufp])) THEN bufp + 1 ELSE bufp
          /\ UNCHANGED mainpc
  /\ UNCHANGED <<progVars, PD6, PB4, CS01, COM0A0, PD3, INTF0, INTF1, OCF1A,
                 isr, ceCall, readOrder, nread, x, histVars, obsVars, hexVars>>

\* line 215: uart_putchar('\n')
sr_nl ==
  /\ MainRuns
  /\ mainpc = "sr_nl"
  /\ uart_send(LF)
  /\ mainpc' = IF txpos = Len(uart_putchar(LF)) THEN "sr_done" ELSE "sr_nl"
  /\ UNCHANGED <<progVars, PD6, PB4, CS01, COM0A0, PD3, INTF0, INTF1, OCF1A,
                 isr, ceCall, readOrder, nread, x, bufp, histVars, obsVars, hexVars>>

\* line 217: sendreport returns after a report; the argument copy of the
\* counter is dead
sr_done ==
  /\ MainRuns
  /\ mainpc = "sr_done"
  /\ sendreport_return
  /\ x' = Zero(COUNT_BYTES)
  /\ nread' = 0
  /\ bufp' = 1
  /\ repTickCount' = Zero(COUNT_BYTES)
  /\ readLo' = Zero(COUNT_BYTES)
  /\ readHi' = Zero(COUNT_BYTES)
  /\ UNCHANGED <<progVars, hwVars, isr, readOrder, txpos,
                 lineVars, pulses, int0_runs, outPulses, presses,
                 tickCount, modeOnEntry, accepted, bounces, srPulse, hexVars>>

\* ------------------------------------------------------------------- Spec
Next ==
  \/ DetectorEdge \/ ButtonPress \/ ButtonRelease \/ TimerMatch
  \/ INT0_entry \/ INT0_exit
  \/ INT1_entry \/ INT1_exit
  \/ TIMER1_COMPA
  \/ main_sleep \/ main_wake
  \/ ce_test \/ ce_clear \/ ce_led \/ ce_tone \/ ce_hold \/ ce_off
  \/ sr_test \/ sr_clear \/ sr_read \/ sr_hex \/ sr_put \/ sr_nl \/ sr_done

Spec == Init /\ [][Next]_vars

\* --------------------------------------------------- hexu64 on its own
\* counter values with one byte, any of the 8, set to any value, and the top
\* byte 0 or 255
HexInputs == { [[i \in 1..COUNT_BYTES |-> 0] EXCEPT ![COUNT_BYTES] = w, ![k] = v] :
                 k \in 1..COUNT_BYTES, v \in 0..255, w \in {0, 255} }

InitHex ==
  /\ count = Zero(COUNT_BYTES) /\ feedback_mode = 0 /\ readOrder = "lohi"
  /\ eventflag = 0
  /\ tick = 0
  /\ serbuf = Zero(SER_BUFF_LEN)
  /\ PD6 = FALSE /\ PB4 = FALSE /\ CS01 = FALSE /\ COM0A0 = TRUE
  /\ PD3 = TRUE
  /\ INTF0 = FALSE /\ INTF1 = FALSE /\ OCF1A = FALSE
  /\ isr = "none" /\ mainpc = "sleep" /\ ceCall = 0
  /\ nread = 0 /\ x = Zero(COUNT_BYTES) /\ bufp = 1 /\ txpos = 1
  /\ sent = <<>> /\ lastLine = <<>>
  /\ pulses = count \o <<0>>
  /\ int0_runs = 0 /\ outPulses = 0 /\ presses = 0
  /\ calls = <<>>
  /\ tickCount = Zero(COUNT_BYTES) /\ repTickCount = Zero(COUNT_BYTES)
  /\ readLo = Zero(COUNT_BYTES) /\ readHi = Zero(COUNT_BYTES)
  /\ modeOnEntry = 0
  /\ accepted = 0 /\ bounces = 0 /\ ceModes = {} /\ srPulse = FALSE
  /\ hx \in HexInputs
  /\ hbuf \in {Zero(SER_BUFF_LEN), [i \in 1..SER_BUFF_LEN |-> 88]}
  /\ hpc = "call"

hexu64_call ==
  /\ hpc = "call"
  /\ hbuf' = hexu64(hx, hbuf)
  /\ hpc' = "done"
  /\ UNCHANGED <<progVars, hwVars, ctlVars, lineVars, histVars, obsVars, hx>>

NextHex == hexu64_call

SpecHex == InitHex /\ [][NextHex]_vars

\* ------------------------------------------------ the button with bounce
\* one start of Init (mode 254), and the contact may bounce during the
\* settle delay of the INT1 handler
InitBounce == Init /\ feedback_mode = 254

NextBounce == Next \/ ButtonBounce

SpecBounce == InitBounce /\ [][NextBounce]_vars

\* ------------------------------------------------------------- fairness
\* the steps of the main program and the steps of the handlers
MainStep ==
  \/ main_sleep \/ main_wake
  \/ ce_test \/ ce_clear \/ ce_led \/ ce_tone \/ ce_hold \/ ce_off
  \/ sr_test \/ sr_clear \/ sr_read \/ sr_hex \/ sr_put \/ sr_nl \/ sr_done

HandlerStep == INT0_entry \/ INT0_exit \/ INT1_entry \/ INT1_exit \/ TIMER1_COMPA

\* a latched interrupt is taken and its handler runs to its end; the main
\* program executes at least one instruction between two handlers, so it
\* moves on however often it is interrupted (the delays end, the UART
\* becomes ready); timer 1 keeps reaching its compare value
Fairness == WF_vars(HandlerStep) /\ SF_vars(MainStep) /\ WF_vars(TimerMatch)

\* one start of Init (counter 255, mode 3)
InitLive == Init /\ feedback_mode = 3

\* the detector, the timer and the main program (the button left alone)
NextLive ==
  \/ DetectorEdge \/ TimerMatch
  \/ INT0_entry \/ INT0_exit \/ TIMER1_COMPA
  \/ MainStep

SpecLive == InitLive /\ [][NextLive]_vars /\ Fairness

\* ---------------------------------------------------------- from startup
\* main at line 255: the hardware is configured (lines 222-253), the external
\* interrupts and the timer can latch their flags, the C runtime has zeroed
\* the globals, interrupts are not enabled yet
InitBoot == Start(Zero(COUNT_BYTES), 0, "hilo", 0, "init_mode")

NextBoot == main_init_mode \/ main_init_count \/ main_sei \/ Next

SpecBoot == InitBoot /\ [][NextBoot]_vars

\* ---------------------------------------------- the button on its own
\* the button pressed and released again and again, the INT1 handler after
\* each falling edge; the main program stays where it is
ButtonPressMany ==
  /\ PD3
  /\ presses < MaxManyPresses
  /\ PD3' = FALSE
  /\ INTF1' = TRUE
  /\ presses' = presses + 1
  /\ UNCHANGED <<progVars, PD6, PB4, CS01, COM0A0, INTF0, OCF1A,
                 ctlVars, lineVars, pulses, int0_runs, outPulses, calls,
                 tickCount, repTickCount, readLo, readHi, modeOnEntry, obsVars, hexVars>>

InitPresses == Start(Zero(COUNT_BYTES), 0, "lohi", 0, "sleep")

NextPresses == ButtonPressMany \/ ButtonRelease \/ INT1_entry \/ INT1_exit

SpecPresses == InitPresses /\ [][NextPresses]_vars

\* ------------------------------------------- woken by a detector pulse
\* the processor was asleep, the INT0 handler has run (the counter is 1, the
\* flag is set) and the main loop is about to continue after sleep_cpu; both
\* feedback channels are selected
InitWoken == Start(Inc(Zero(COUNT_BYTES)), 3, "lohi", 1, "wake")

SpecWoken == InitWoken /\ [][Next]_vars

\* ------------------------------------------------------------------ claims
IsHexDigit(c) == c \in 48..57 \/ c \in 65..70
HexVal(c) == IF c \in 48..57 THEN c - 48 ELSE IF c \in 65..70 THEN c - 55 ELSE 0 - 1

\* the 16 digits of s, most significant first, as 8 bytes, least significant first
ParseHex(s) == [i \in 1..COUNT_BYTES |->
                  HexVal(s[18 - 2 * i]) + 16 * HexVal(s[17 - 2 * i])]

IsLine(l) == /\ Len(l) = 18
             /\ \A i \in 1..16 : IsHexDigit(l[i])
             /\ l[17] = CR
             /\ l[18] = LF

LinePrefix(s) == /\ Len(s) <= 17
                 /\ \A i \in 1..Len(s) : IF i <= 16 THEN IsHexDigit(s[i]) ELSE s[i] = CR


\* C1: after N executions of the INT0 handler the counter is N when N fits
\* in 64 bits and UINT64_MAX otherwise (pulses is N on 9 bytes)
C1_CounterSaturates ==
  /\ pulses[9] = 0 => count = SubSeq(pulses, 1, COUNT_BYTES)
  /\ pulses[9] # 0 => count = UINT64_MAX

\* a pulse handled with the counter already at its maximum
C1_Witness == pulses[9] # 0 /\ count = UINT64_MAX /\ isr = "none"

\* C2: the pulse output is high exactly while the INT0 handler is between
\* its rise and its fall, one rise per execution, low outside the handler,
\* and the handler returns with the pin low and eventflag set
C2_OnePulsePerExecution ==
  /\ [](outPulses = int0_runs /\ (PD6 <=> isr = "INT0"))
  /\ [][(isr = "INT0" /\ isr' # "INT0") => (eventflag' = 1 /\ ~PD6')]_vars
  /\ [][(PD6' # PD6) => (isr = "INT0" \/ isr' = "INT0")]_vars

\* the handler executing, pulse output high, with the counter saturated
C2_Witness == isr = "INT0" /\ PD6 /\ pulses[9] # 0 /\ count = UINT64_MAX

\* C3: during one execution of the INT1 handler the mode stays as it was on
\* entry until the re-sample; it then advances by 1 (mod 4) if the button
\* input is low and is unchanged if the input is high
C3_DebouncedAdvance ==
  /\ [](isr = "INT1" => feedback_mode = modeOnEntry)
  /\ [][(isr = "INT1" /\ isr' # "INT1") =>
          IF ~PD3
          THEN /\ feedback_mode' % 4 = (modeOnEntry + 1) % 4
               /\ feedback_mode' = (modeOnEntry + 1) % 256
          ELSE feedback_mode' = modeOnEntry]_vars

\* a handler execution has finished for a press released before the
\* re-sample, and the mode is what it was on entry
C3_Witness == /\ presses >= 1 /\ ~INTF1 /\ isr = "none" /\ PD3
              /\ feedback_mode = modeOnEntry

\* C4 as stated: the line of a report encodes the value the counter had
\* when the tick was raised
C4_ReportIsTickValue ==
  mainpc = "sr_done" => ParseHex(lastLine) = repTickCount

\* C4 amended: each byte of the value a report line encodes is that byte of a
\* value the counter held between the tick and the end of the read of the
\* counter (so the line encodes the value at the tick when no pulse was
\* handled in between)
C4_ReportBytesSinceTick ==
  mainpc = "sr_done" =>
    /\ IsLine(lastLine)
    /\ \A i \in 1..COUNT_BYTES :
         \E v \in Between(repTickCount, readHi, int0_runs) :
           ParseHex(lastLine)[i] = v[i]

\* a report whose counter was incremented between the tick and the read
C4_Witness == mainpc = "sr_done" /\ Less(repTickCount, readHi)

\* C5 as stated: the value sendreport has read is a value the counter held
\* at some moment between the load of the first byte and the load of the last
C5_NoTornRead ==
  mainpc = "sr_hex" => x \in Between(readLo, readHi, int0_runs)

\* C6: hexu64 writes 16 upper-case hex digits and a NUL, and they parse back to
\* the input; 0 gives sixteen '0', 255 gives fourteen '0' and "FF"
C6_HexRoundTrip ==
  hpc = "done" =>
    /\ \A i \in 1..16 : IsHexDigit(hbuf[i])
    /\ hbuf[17] = NUL
    /\ ParseHex(hbuf) = hx
    /\ hx = Zero(COUNT_BYTES) => \A i \in 1..16 : hbuf[i] = 48
    /\ hx = [i \in 1..COUNT_BYTES |-> IF i = 1 THEN 255 ELSE 0] =>
         /\ \A i \in 1..14 : hbuf[i] = 48
         /\ hbuf[15] = 70 /\ hbuf[16] = 70

\* 255 encoded over a buffer that held other characters
C6_Witness == /\ hpc = "done"
              /\ hx = [i \in 1..COUNT_BYTES |-> IF i = 1 THEN 255 ELSE 0]
              /\ hbuf[1] = 48 /\ hbuf[16] = 70

C8_CheckReportCheck ==
  /\ InSendreport => calls = <<"wake", "checkevent", "sendreport">>
  /\ InCheckevent =>
       \/ ceCall = 1 /\ calls = <<"wake", "checkevent">>
       \/ ceCall = 2 /\ calls = <<"wake", "checkevent", "sendreport", "checkevent">>
  /\ mainpc \in {"sleep", "asleep"} =>
       calls \in {<<>>, <<"wake", "checkevent", "sendreport", "checkevent">>}

\* back at sleep after a full cycle
C8_Witness == mainpc = "asleep" /\ Len(calls) = 4

\* C9: in checkevent with the flag seen set, the LED goes on exactly when bit
\* 0 of the mode is set and timer 0 starts, connected, exactly when bit 1 is
\* set; checkevent returns with LED off, timer stopped and OC0A disconnected;
\* LED off and timer stopped whenever main is outside the hold
C9_FeedbackByModeBits ==
  /\ [][(mainpc = "ce_led" /\ mainpc' = "ce_tone") =>
          (PB4' <=> feedback_mode % 2 = 1)]_vars
  /\ [][(mainpc = "ce_tone" /\ mainpc' = "ce_hold") =>
          /\ CS01' <=> (feedback_mode \div 2) % 2 = 1
          /\ CS01' => COM0A0']_vars
  /\ [][(mainpc = "ce_off" /\ mainpc' # "ce_off") =>
          (~PB4' /\ ~CS01' /\ ~COM0A0')]_vars
  /\ [](mainpc \notin {"ce_tone", "ce_hold", "ce_off"} => (~PB4 /\ ~CS01))

\* both channels on during the hold, mode 3 (mod 4)
C9_Witness == mainpc = "ce_off" /\ PB4 /\ CS01 /\ COM0A0 /\ feedback_mode % 4 = 3

\* C10: the counter and the pulse pin change only in the INT0 handler, the
\* mode only in the INT1 handler; eventflag is set only by INT0 and cleared
\* only by checkevent, tick is set only by the timer handler and cleared
\* only by sendreport; each handler leaves everything else alone; the LED and
\* the tone change only in checkevent, the buffer and the line only in
\* sendreport
C10_SingleWriter ==
  [][/\ (count' # count \/ PD6' # PD6) => (isr = "INT0" \/ isr' = "INT0")
     /\ feedback_mode' # feedback_mode => isr = "INT1"
     /\ eventflag' # eventflag =>
          \/ eventflag' = 1 /\ isr = "INT0"
          \/ eventflag' = 0 /\ isr = "none" /\ mainpc = "ce_clear"
     /\ tick' # tick =>
          \/ tick' = 1 /\ OCF1A /\ ~OCF1A'
          \/ tick' = 0 /\ isr = "none" /\ mainpc = "sr_clear"
     /\ (isr = "INT0" \/ isr' = "INT0") =>
          UNCHANGED <<feedback_mode, tick, serbuf, PB4, CS01, COM0A0, x, sent, lastLine>>
     /\ (isr = "INT1" \/ isr' = "INT1") =>
          UNCHANGED <<count, eventflag, tick, serbuf, PD6, PB4, CS01, COM0A0, x, sent, lastLine>>
     /\ (OCF1A /\ ~OCF1A') =>
          /\ tick' = 1
          /\ UNCHANGED <<count, eventflag, feedback_mode, serbuf, PD6, PB4, CS01, COM0A0,
                         x, sent, lastLine>>
     /\ (PB4' # PB4 \/ CS01' # CS01 \/ COM0A0' # COM0A0) => (isr = "none" /\ InCheckevent)
     /\ (serbuf' # serbuf \/ x' # x \/ sent' # sent \/ lastLine' # lastLine) =>
          (isr = "none" /\ InSendreport)
    ]_vars

\* all three handlers have run and both flags have been consumed
C10_Witness == /\ mainpc = "sr_done" /\ isr = "none"
               /\ int0_runs >= 1 /\ eventflag = 0
               /\ presses >= 1 /\ ~INTF1 /\ feedback_mode # modeOnEntry

\* C11: one press advances the mode at most once, also when the contact
\* bounces during the settle delay: the mode advances have never outnumbered
\* the presses, the mode is the starting mode plus the accepted presses, and
\* the INT1 handler returns with its own interrupt flag clear, so an edge
\* latched during the delay starts no further execution
C11_OneAdvancePerPress ==
  /\ [](accepted <= presses /\ feedback_mode = (254 + accepted) % 256)
  /\ [][(isr = "INT1" /\ isr' # "INT1") => ~INTF1']_vars

\* the handler has returned from a press whose contact bounced during the
\* delay: the button is still held, the latched edge is gone, one advance
C11_Witness == /\ bounces >= 1 /\ isr = "none" /\ ~INTF1 /\ ~PD3
               /\ presses = 1 /\ accepted = 1 /\ feedback_mode = 255

\* C12: checkevent clears eventflag with every output still off, before the
\* LED or the tone is driven, and no later step of the same call clears it:
\* a flag set again by a pulse handled during the rest of the call is still
\* set when checkevent returns, and stays set until a later call clears it
C12_ClearedBeforeOutputs ==
  /\ [](mainpc \in {"ce_test", "ce_clear"} => (~PB4 /\ ~CS01))
  /\ [][(eventflag = 1 /\ eventflag' = 0) =>
          (mainpc = "ce_clear" /\ mainpc' = "ce_led" /\ ~PB4 /\ ~CS01)]_vars
  /\ [][(mainpc \in {"ce_led", "ce_tone", "ce_hold", "ce_off"} /\ eventflag = 1) =>
          eventflag' = 1]_vars
  /\ [][(mainpc \in {"ce_led", "ce_tone", "ce_hold", "ce_off"}
          /\ isr = "INT0" /\ isr' = "none") => eventflag' = 1]_vars

\* checkevent has returned to main with the flag set by a pulse that was
\* handled after the clear (not during sendreport, which has not started)
C12_Witness == /\ mainpc = "sr_test" /\ isr = "none" /\ eventflag = 1
               /\ ~srPulse /\ int0_runs = 1

\* C13: a pulse whose INT0 handler ran while main was inside sendreport has
\* left eventflag set; main is then still inside sendreport or in the second
\* checkevent of the same wake cycle, whose test sees the flag and enters the
\* body, and main reaches sleep only from the end of that body
C13_ReportPulseServiced ==
  /\ [](srPulse => (InSendreport \/ (InCheckevent /\ ceCall = 2)))
  /\ [](srPulse /\ (InSendreport \/ mainpc \in {"ce_test", "ce_clear"}) => eventflag = 1)
  /\ [][(srPulse /\ mainpc = "ce_test" /\ mainpc' # "ce_test") =>
          (mainpc' = "ce_clear" /\ ceCall' = 2)]_vars
  /\ [][(srPulse /\ mainpc # "sleep" /\ mainpc' = "sleep") => mainpc = "ce_off"]_vars

\* the second checkevent at the end of its hold, servicing a pulse that was
\* handled while a report was being sent
C13_Witness == /\ mainpc = "ce_off" /\ ceCall = 2 /\ srPulse /\ eventflag = 0
               /\ IsLine(lastLine)

\* the order of the positions of sendreport
SrRank(pc) == CASE pc = "sr_test" -> 0 [] pc = "sr_clear" -> 1 [] pc = "sr_read" -> 2
                [] pc = "sr_hex" -> 3 [] pc = "sr_put" -> 4 [] pc = "sr_nl" -> 5
                [] pc = "sr_done" -> 6 [] OTHER -> 7

\* C14: checkevent called with eventflag clear returns in one step with the
\* LED, the tone hardware, the shared variables and the serial side
\* unchanged; sendreport called with tick clear returns in one step with no
\* byte sent and the buffer and the shared variables unchanged; sendreport
\* called with tick set clears it and passes once through the step that ends
\* a line, which is the only way out
C14_NoOpConsumers ==
  /\ [][(mainpc = "ce_test" /\ eventflag = 0 /\ mainpc' # "ce_test") =>
          /\ mainpc' \in {"sr_test", "sleep"}
          /\ UNCHANGED <<progVars, hwVars, x, sent, lastLine>>]_vars
  /\ [][(mainpc = "sr_test" /\ tick = 0 /\ mainpc' # "sr_test") =>
          /\ mainpc' = "ce_test" /\ ceCall' = 2
          /\ UNCHANGED <<progVars, hwVars, x, sent, lastLine>>]_vars
  /\ [][(mainpc = "sr_test" /\ tick # 0 /\ mainpc' # "sr_test") => mainpc' = "sr_clear"]_vars
  /\ [][(mainpc = "sr_clear" /\ mainpc' # "sr_clear") => tick' = 0]_vars
  /\ [][(sent # <<>> /\ sent' = <<>>) <=> (mainpc = "sr_nl" /\ mainpc' = "sr_done")]_vars
  /\ [][(mainpc # "sr_done" /\ mainpc' = "sr_done") => IsLine(lastLine')]_vars
  /\ [][InSendreport => (SrRank(mainpc') >= SrRank(mainpc))]_vars
  /\ [][(InSendreport /\ SrRank(mainpc') = 7) =>
          (mainpc = "sr_done" \/ (mainpc = "sr_test" /\ tick = 0))]_vars

\* a wake cycle (woken by the button) in which both calls of checkevent and
\* the call of sendreport found their flag clear: nothing sent, the tone
\* output still connected as startup left it
C14_Witness == /\ mainpc = "sleep" /\ Len(calls) = 4 /\ accepted = 1
               /\ int0_runs = 0 /\ eventflag = 0 /\ tick = 0 /\ ~OCF1A
               /\ lastLine = <<>> /\ sent = <<>> /\ COM0A0

\* C15: from mode 0, after k accepted presses the mode is k modulo 256 and
\* its low two bits are k modulo 4: LED selected for k mod 4 in {1, 3}, tone
\* for k mod 4 in {2, 3}, also after the 8-bit mode has wrapped
C15_ModeIsPressesMod4 ==
  /\ feedback_mode = accepted % 256
  /\ feedback_mode % 4 = accepted % 4
  /\ (feedback_mode % 2 = 1) <=> (accepted % 4 \in {1, 3})
  /\ ((feedback_mode \div 2) % 2 = 1) <=> (accepted % 4 \in {2, 3})

\* 257 accepted presses: the mode has wrapped from 255 to 0 and is 1
C15_Witness == accepted = 257 /\ feedback_mode = 1 /\ isr = "none"

\* C16: while main is in lines 255-258 no handler runs and none has run;
\* at sei() the counter and the mode are 0; afterwards the counter is the
\* number of pulses handled and the mode the number of presses accepted, so
\* the first execution of a handler starts from counter 0 and mode 0
C16_HandlersAfterStartup ==
  /\ mainpc \in {"init_mode", "init_count", "sei"} =>
       /\ isr = "none" /\ int0_runs = 0 /\ accepted = 0
       /\ eventflag = 0 /\ tick = 0
  /\ mainpc = "sei" => (count = Zero(COUNT_BYTES) /\ feedback_mode = 0)
  /\ mainpc \notin {"init_mode", "init_count"} =>
       /\ count = SubSeq(pulses, 1, COUNT_BYTES)
       /\ feedback_mode = accepted % 256

\* all three interrupts latched during startup and held off: main is at
\* sei() with both variables initialised and no handler has run
C16_Witness == /\ mainpc = "sei" /\ INTF0 /\ INTF1 /\ OCF1A /\ isr = "none"
               /\ count = Zero(COUNT_BYTES) /\ feedback_mode = 0

\* C17 as stated: when one call of checkevent has both the LED and the tone
\* switched on, the mode was 3 (mod 4) at some moment of that call
C17_ChannelsFromOneMode ==
  (mainpc \in {"ce_hold", "ce_off"} /\ PB4 /\ CS01) => 3 \in ceModes

\* C18 as stated: the value of a completed report line is never smaller than
\* the value of the line before it
C18_ReportsNonDecreasing ==
  [][(lastLine # <<>> /\ lastLine' # lastLine) =>
       ~Less(ParseHex(lastLine'), ParseHex(lastLine))]_vars

\* C19 as stated: when main executes sleep_cpu, and while the processor is
\* asleep, eventflag and tick are both clear
C19_NoPendingAtSleep ==
  mainpc = "asleep" => (eventflag = 0 /\ tick = 0)

\* C20: whenever eventflag is set, a later step of checkevent clears it
\* (line 168, after which main is at line 170 with the flag clear)
C20_EventEventuallyCleared ==
  (eventflag = 1) ~> (mainpc = "ce_led" /\ eventflag = 0)

\* the processor asleep with the flag set: a pulse was handled between the
\* last test and sleep_cpu, and only a later interrupt can wake the processor
C20_Witness == mainpc = "asleep" /\ isr = "none" /\ eventflag = 1 /\ ~INTF0 /\ ~OCF1A

====
